---- MODULE Spec2Model ----
(***************************************************************************)
(* EduGenius: hybrid document ingestion pipeline.                          *)
(*                                                                         *)
(* The module models                                                       *)
(*   - OCRSemaphore (app/core/ocr_semaphore.py), the process-wide gate;    *)
(*   - upload_document (app/api/endpoints/documents.py), PDF branch;       *)
(*   - HybridDocumentProcessor (app/services/hybrid_document_processor.py) *)
(*     with its fast path and OCR path;                                    *)
(*   - ImprovedChapterExtractor persistence of chapters and subsections;   *)
(*   - validate_pdf_before_upload (app/utils/pdf_validator.py);            *)
(*   - ChapterDivider and EnhancedChapterDivider (app/services);           *)
(*   - TextbookParser TOC page selection (app/services/textbook_parser.py);*)
(*   - OCREngine.process_pdf (app/core/ocr_engine.py).                     *)
(*                                                                         *)
(* The specifications, all over the same variables:                        *)
(*   Spec         the upload pipeline, several documents in flight;        *)
(*   DocSpec      one upload with every input of the model;                *)
(*   LiveSpec     the upload pipeline under a fair event loop;             *)
(*   SemSpec      the OCRSemaphore object driven by arbitrary callers;     *)
(*   ExtractSpec  single calls of the chapter extractors and dividers;     *)
(*   RetrySpec    single calls of the extractor's two entry points;        *)
(*   ParserSpec   single calls of the validator and the TOC parser;        *)
(*   EngineSpec   one run of OCREngine.process_pdf, page by page.          *)
(***************************************************************************)
EXTENDS Integers, Sequences, FiniteSets, Bags, TLC

\* ------------------------------------------------------------------------
\* Bounds of the model
\* ------------------------------------------------------------------------
\* number of documents uploaded in one run of the pipeline
NumDocs == 3
\* page count of every readable PDF of the model
DocPages == 10
\* longest chapter list the generative extraction returns in the pipeline
MaxChapters == 3
\* number of documents uploaded in one run of DocSpec
SoloDocs == 1
\* number of coroutines calling the semaphore in SemSpec
NumCallers == 3
\* number of distinct task ids used in SemSpec
NumTaskIds == 3
\* longest raw chapter list / list of matched title lines in ExtractSpec
MaxRawLen == 2
\* largest chapter number in ExtractSpec
MaxChapterNumber == 2
\* most Progress rows the store holds in ExtractSpec
MaxRows == 3
\* number of pages the TOC scan looks at in ParserSpec
ScanPages == 4
\* most pages one process_pdf run is asked for in EngineSpec
EnginePages == 3
\* most pages of a PDF handed to the validator on its own in ParserSpec
MaxPdfPages == 6

\* ------------------------------------------------------------------------
\* Program constants
\* ------------------------------------------------------------------------
\* ocr_semaphore = OCRSemaphore(max_concurrent=2)
MaxConcurrent == 2
\* result['is_scan'] = result['text_ratio'] < 0.2      (in percent)
ScanRatioPct == 20
\* self.TEXT_RATIO_THRESHOLD = 0.1                       (in percent)
TEXT_RATIO_THRESHOLD == 10
\* self.OCR_CONFIDENCE_THRESHOLD = 0.6                   (in percent)
OCR_CONFIDENCE_THRESHOLD == 60
\* extract_chapters_from_text: len(toc_text) < 100; _ocr_path: len(toc_text) > 100
MinTocLen == 100
\* extract_chapters / _retry_with_more_pages: fewer than 3 chapters is "too few"
MinChapters == 3

Docs == 1..NumDocs
Callers == 1..NumCallers
TaskIds == 1..NumTaskIds

VARIABLES
    semValue,      \* OCRSemaphore._semaphore: free permits of asyncio.Semaphore
    currentTasks,  \* OCRSemaphore._current_tasks
    hpc,           \* SemSpec: position of each calling coroutine
    harg,          \* SemSpec: task id the coroutine passed to acquire
    call,          \* unit specifications: the function called last, its argument, its return value
    engine,        \* EngineSpec: one run of OCREngine.process_pdf
    nextId,        \* documents.id autoincrement: next id create_document assigns
    file,          \* the uploaded file of each document (uploads/<user>_<id>_<name>)
    pc,            \* position of each document's upload handler / background task
    doc,           \* documents row: processing_status, ocr_confidence, total_chapters
    progress,      \* Progress rows (chapters): bag of <<document_id, chapter_number>>
    subsections,   \* subsections rows: bag of <<document_id, chapter_number, subsection_number>>
    loc,           \* locals of _fast_path / _ocr_path of each document
    result         \* what process_document returned / the handler raised, per document

vars == <<semValue, currentTasks, hpc, harg, call, engine, nextId, file, pc, doc, progress,
          subsections, loc, result>>

semVars == <<semValue, currentTasks>>
harnessVars == <<hpc, harg, call, engine>>
pipeVars == <<nextId, file, pc, doc, progress, subsections, loc, result>>

\* ------------------------------------------------------------------------
\* OCRSemaphore
\* ------------------------------------------------------------------------
\* task_id = f"doc_{new_document.id}"
TaskId(d) == d

\* acquire without waiting for a permit
SemAcquire_NoWait(t) ==
    /\ semValue' = semValue - 1
    /\ currentTasks' = currentTasks \cup {t}

\* OCRSemaphore.acquire: await self._semaphore.acquire(); self._current_tasks.add(task_id).
\* The await completes only when a permit is free; asyncio.Semaphore.acquire
\* raises no Exception, so the "return False" branch is never taken.
SemAcquire(t) ==
    /\ semValue > 0
    /\ semValue' = semValue - 1
    /\ currentTasks' = currentTasks \cup {t}

\* release that frees a permit whether or not the id is active
SemRelease_Unchecked(t) ==
    /\ currentTasks' = currentTasks \ {t}
    /\ semValue' = semValue + 1

\* OCRSemaphore.release
SemRelease(t) ==
    IF t \in currentTasks
    THEN /\ currentTasks' = currentTasks \ {t}
         /\ semValue' = semValue + 1
    ELSE UNCHANGED semVars

\* OCRSemaphore.get_status
GetStatus ==
    [max_concurrent |-> MaxConcurrent,
     current_tasks |-> Cardinality(currentTasks),
     available_slots |-> MaxConcurrent - Cardinality(currentTasks),
     active_tasks |-> currentTasks]

\* ------------------------------------------------------------------------
\* validate_pdf_before_upload
\* ------------------------------------------------------------------------
\* the files of the model: one unreadable file, and readable files of
\* DocPages pages with few, some or all pages carrying a text layer,
\* with or without an embedded outline
TextPageChoices == {0, DocPages \div 10, DocPages \div 5, DocPages}

CorruptFile == [readable |-> FALSE, total_pages |-> 0, text_pages |-> 0, outline |-> FALSE]

Files ==
    {CorruptFile} \cup
    [readable : {TRUE}, total_pages : {DocPages}, text_pages : TextPageChoices,
     outline : BOOLEAN]

NoFile == [readable |-> FALSE, total_pages |-> 0, text_pages |-> 0, outline |-> TRUE]

\* text_ratio < pct/100 for text_ratio = text_pages/total_pages (0.0 when the
\* ratio was never computed)
RatioBelow(v, pct) ==
    IF v.ratio_set THEN 100 * v.text_pages < pct * v.total_pages ELSE 0 < pct

\* validate_pdf_before_upload: the result dict. fitz.open raising leaves the
\* initial dict (total_pages 0, text_ratio 0.0, is_scan False) untouched.
Validate(f) ==
    IF ~f.readable
    THEN [total_pages |-> 0, text_pages |-> 0, ratio_set |-> FALSE,
          has_text |-> FALSE, is_scan |-> FALSE]
    ELSE LET r == [total_pages |-> f.total_pages, text_pages |-> f.text_pages,
                   ratio_set |-> f.total_pages > 0]
         IN [total_pages |-> r.total_pages, text_pages |-> r.text_pages,
             ratio_set |-> r.ratio_set,
             has_text |-> r.text_pages > 0,
             is_scan |-> RatioBelow(r, ScanRatioPct)]


\* ------------------------------------------------------------------------
\* ImprovedChapterExtractor
\* ------------------------------------------------------------------------
\* lengths of a TOC text around the 100-character tests of the code
TocLens == {0, MinTocLen - 1, MinTocLen, MinTocLen + 1}

\* a chapter_info of the generative extraction's JSON: chapter i, one subsection
ChapterInfo(i) == [chapter_number |-> i, subsections |-> <<1>>]

ChapterList(n) == [i \in 1..n |-> ChapterInfo(i)]

\* what one call of the generative extraction does: the HTTP call times out
\* (httpx timeout=60.0), the answer is unusable (status, JSON, has_toc false,
\* empty list), or it carries a chapter list
LlmResponses ==
    {[kind |-> "timeout", chapters |-> <<>>], [kind |-> "invalid", chapters |-> <<>>]}
    \cup {[kind |-> "chapters", chapters |-> ChapterList(n)] : n \in 1..MaxChapters}

Store == [progress |-> progress, subsections |-> subsections]

\* the natural keys of the subsections rows a chapter_info asks for
SubsectionKeys(d, info) ==
    {<<d, info.chapter_number, info.subsections[j]>> : j \in 1..Len(info.subsections)}

\* INSERT INTO subsections ... ON CONFLICT(user_id, document_id, chapter_number,
\* subsection_number) DO UPDATE: a row is added for every key the table lacks
UpsertSubsections(rows, keys) ==
    rows (+) SetToBag({key \in keys : ~BagIn(key, rows)})

\* _create_chapter_progress that deletes what the document already has
CreateChapterProgress_Replace(st, d, info) ==
    [progress |-> SetToBag({r \in BagToSet(st.progress) : r[1] # d}
                           \cup {<<d, info.chapter_number>>}),
     subsections |->
        SetToBag({r \in BagToSet(st.subsections) : r[1] # d} \cup
                 SubsectionKeys(d, info))]

\* _create_chapter_progress: skip when a Progress row of (document_id,
\* chapter_number) exists, else insert the row and upsert its subsections
CreateChapterProgress(st, d, info) ==
    IF BagIn(<<d, info.chapter_number>>, st.progress)
    THEN st
    ELSE [progress |-> st.progress (+) SetToBag({<<d, info.chapter_number>>}),
          subsections |-> UpsertSubsections(st.subsections, SubsectionKeys(d, info))]

\* the loop "for chapter_info in chapters: await self._create_chapter_progress"
\* over the first k entries
RECURSIVE PersistChapters(_, _, _, _)
PersistChapters(st, d, chapters, k) ==
    IF k = 0 THEN st
    ELSE CreateChapterProgress(PersistChapters(st, d, chapters, k - 1), d, chapters[k])

\* _llm_extract: None (ok = FALSE) on a timeout or an unusable answer; else
\* the chapters are persisted one by one and returned. k < Len(chapters): the
\* store raises while entry k+1 is persisted; the exception is caught and
\* None is returned, the first k entries stay.
LlmExtract(st, d, resp, k) ==
    IF resp.kind # "chapters"
    THEN [ok |-> FALSE, chapters |-> <<>>, st |-> st]
    ELSE [ok |-> k = Len(resp.chapters),
          chapters |-> IF k = Len(resp.chapters) THEN resp.chapters ELSE <<>>,
          st |-> PersistChapters(st, d, resp.chapters, k)]

\* extract_chapters_from_text
ExtractChaptersFromText(st, d, toc_len, resp, k) ==
    IF toc_len = 0 \/ toc_len < MinTocLen
    THEN [chapters |-> <<>>, st |-> st, llm_called |-> FALSE]
    ELSE LET r == LlmExtract(st, d, resp, k)
         IN [chapters |-> r.chapters, st |-> r.st, llm_called |-> TRUE]

\* _retry_with_more_pages
RetryWithMorePages(st, d, resp, k) ==
    LET r == LlmExtract(st, d, resp, k)
    IN IF r.ok /\ Len(r.chapters) >= MinChapters
       THEN [chapters |-> r.chapters, st |-> r.st]
       ELSE [chapters |-> <<>>, st |-> r.st]

\* extract_chapters(ocr_result, ...) up to its first _llm_extract: has_pages
\* is "ocr_result.get('pages')"; retry says that fewer than 3 chapters came
\* back and _retry_with_more_pages decides the result
ExtractChaptersFirst(st, d, has_pages, resp, k) ==
    IF ~has_pages
    THEN [chapters |-> <<>>, st |-> st, llm_called |-> FALSE, retry |-> FALSE]
    ELSE LET r == LlmExtract(st, d, resp, k)
         IN IF ~r.ok
            THEN [chapters |-> <<>>, st |-> r.st, llm_called |-> TRUE, retry |-> FALSE]
            ELSE [chapters |-> r.chapters, st |-> r.st, llm_called |-> TRUE,
                  retry |-> Len(r.chapters) < MinChapters]

\* ------------------------------------------------------------------------
\* Raw extractor inputs; ChapterDivider._heuristic_division;
\* EnhancedChapterDivider.divide_document_into_chapters
\* ------------------------------------------------------------------------
SeqsUpTo(S, n) == UNION {[1..m -> S] : m \in 0..n}

ChapterNumbers == 1..MaxChapterNumber

\* a chapter of the generative extraction's raw JSON: any chapter number, and
\* a subsection list that names subsection 1 twice
RawChapter(n) == [chapter_number |-> n, subsections |-> <<1, 1>>]

RawLists == SeqsUpTo({RawChapter(n) : n \in ChapterNumbers}, MaxRawLen)

RawResponses ==
    {[kind |-> "timeout", chapters |-> <<>>], [kind |-> "invalid", chapters |-> <<>>]}
    \cup {[kind |-> "chapters", chapters |-> raw] : raw \in RawLists \ {<<>>}}

\* the title lines one regex pattern matched, in text order, after the title
\* was cleaned and found long enough
Titles == {"a", "b"}

MatchLists ==
    SeqsUpTo([chapter_number : ChapterNumbers, chapter_title : Titles,
              subsections : {<<>>}], MaxRawLen)

\* len(document_text) around the tests of _heuristic_division
DocLengths == {4999, 5000, 20000, 50000}

Front(seq) == SubSeq(seq, 1, Len(seq) - 1)

Last(seq) == seq[Len(seq)]

\* sorted(chapters, key=lambda x: x['chapter_number']) (stable)
RECURSIVE SortedByNumber(_)
SortedByNumber(chapters) ==
    IF chapters = <<>> THEN <<>>
    ELSE LET sorted == SortedByNumber(Front(chapters))
             ch == Last(chapters)
             k == Cardinality({i \in 1..Len(sorted) :
                                   sorted[i].chapter_number <= ch.chapter_number})
         IN SubSeq(sorted, 1, k) \o <<ch>> \o SubSeq(sorted, k + 1, Len(sorted))

\* the "seen" loop of _heuristic_division: the first chapter of each number
RECURSIVE UniqueByNumber(_)
UniqueByNumber(chapters) ==
    IF chapters = <<>> THEN <<>>
    ELSE LET unique == UniqueByNumber(Front(chapters))
             ch == Last(chapters)
         IN IF \E i \in 1..Len(unique) : unique[i].chapter_number = ch.chapter_number
            THEN unique
            ELSE Append(unique, ch)

\* _heuristic_division: total_chapters of the default structure by len(document_text)
DefaultChapterCount(doc_length) ==
    IF doc_length < 5000 THEN 1
    ELSE IF doc_length < 20000 THEN 3
    ELSE IF doc_length < 50000 THEN 5
    ELSE 8

DefaultChapters(n) ==
    [i \in 1..n |-> [chapter_number |-> i, chapter_title |-> "default", subsections |-> <<>>]]

\* ChapterDivider._heuristic_division. matches: the chapters of the first
\* pattern that matched a title line (a pattern is used when it gives two or more)
HeuristicDivision(matches, doc_length) ==
    LET chapters == IF Len(matches) >= 2 THEN matches
                    ELSE DefaultChapters(DefaultChapterCount(doc_length))
        unique_chapters == UniqueByNumber(SortedByNumber(chapters))
    IN [has_toc |-> Len(unique_chapters) >= 2,
        total_chapters |-> Len(unique_chapters),
        chapters |-> unique_chapters]

\* EnhancedChapterDivider._create_chapter_progress: db.add(Progress(...)) with
\* no look-up first; the subsections are plain INSERTs, and the one that hits
\* unique_subsection raises and is skipped
EnhancedCreateChapterProgress(st, d, info) ==
    [progress |-> st.progress (+) SetToBag({<<d, info.chapter_number>>}),
     subsections |-> UpsertSubsections(st.subsections, SubsectionKeys(d, info))]

RECURSIVE EnhancedPersistChapters(_, _, _, _)
EnhancedPersistChapters(st, d, chapters, k) ==
    IF k = 0 THEN st
    ELSE EnhancedCreateChapterProgress(
             EnhancedPersistChapters(st, d, chapters, k - 1), d, chapters[k])

\* _heuristic_division_with_fallback: seen_titles keeps the first match of
\* each (chapter number, title)
RECURSIVE UniqueByNumberAndTitle(_)
UniqueByNumberAndTitle(matches) ==
    IF matches = <<>> THEN <<>>
    ELSE LET unique == UniqueByNumberAndTitle(Front(matches))
             m == Last(matches)
         IN IF \E i \in 1..Len(unique) :
                   /\ unique[i].chapter_number = m.chapter_number
                   /\ unique[i].chapter_title = m.chapter_title
            THEN unique
            ELSE Append(unique, m)

\* _heuristic_division_with_fallback: the chapters of the first pattern with a
\* match are persisted and returned; with no match one default chapter is
HeuristicDivisionWithFallback(st, d, matches) ==
    LET chapters == UniqueByNumberAndTitle(matches)
    IN IF Len(chapters) >= 1
       THEN [chapters |-> chapters,
             st |-> EnhancedPersistChapters(st, d, chapters, Len(chapters))]
       ELSE [chapters |-> DefaultChapters(1),
             st |-> EnhancedCreateChapterProgress(st, d, DefaultChapters(1)[1])]

\* EnhancedChapterDivider.divide_document_into_chapters: the generative
\* answer's chapters when it has any (persisted as they come), else the regex
\* fallback
EnhancedDivide(st, d, resp, matches) ==
    IF resp.kind = "chapters"
    THEN [chapters |-> resp.chapters,
          st |-> EnhancedPersistChapters(st, d, resp.chapters, Len(resp.chapters))]
    ELSE HeuristicDivisionWithFallback(st, d, matches)

\* ------------------------------------------------------------------------
\* TextbookParser._select_best_pages and _heuristic_scan
\* ------------------------------------------------------------------------
\* min_score_threshold = 5
MinScoreThreshold == 5
\* if len(selected_pages) >= 20: break
MaxTocPages == 20
\* page scores below, at and above the threshold
ScoreLevels == {MinScoreThreshold - 1, MinScoreThreshold, MinScoreThreshold + 1}

\* the page_scores list of a scan: the scored pages in page order
PageList(S, sc) ==
    LET nth(i) == CHOOSE q \in S : Cardinality({r \in S : r < q}) = i - 1
    IN [i \in 1..Cardinality(S) |-> [page |-> nth(i), score |-> sc[nth(i)]]]

PageScoreLists ==
    UNION {{PageList(S, sc) : sc \in [S -> ScoreLevels]} : S \in SUBSET (1..ScanPages)}

PageNums(pages) == {pages[i].page : i \in 1..Len(pages)}

Max(S) == CHOOSE x \in S : \A y \in S : y <= x

\* sorted(page_scores, key=lambda x: x['score'], reverse=True) (stable)
RECURSIVE SortedByScore(_)
SortedByScore(pages) ==
    IF pages = <<>> THEN <<>>
    ELSE LET sorted == SortedByScore(Front(pages))
             pg == Last(pages)
             k == Cardinality({i \in 1..Len(sorted) : sorted[i].score >= pg.score})
         IN SubSeq(sorted, 1, k) \o <<pg>> \o SubSeq(sorted, k + 1, Len(sorted))

\* selected_pages.sort(key=lambda x: x['page']) (stable)
RECURSIVE SortedByPage(_)
SortedByPage(pages) ==
    IF pages = <<>> THEN <<>>
    ELSE LET sorted == SortedByPage(Front(pages))
             pg == Last(pages)
             k == Cardinality({i \in 1..Len(sorted) : sorted[i].page <= pg.page})
         IN SubSeq(sorted, 1, k) \o <<pg>> \o SubSeq(sorted, k + 1, Len(sorted))

\* scoring_pages = [p for p in sorted_pages if p['score'] >= min_score_threshold]
ScoringPages(sorted_pages) ==
    LET keep(pg) == pg.score >= MinScoreThreshold
    IN SelectSeq(sorted_pages, keep)

\* the first index of scoring_pages whose score is scoring_pages[0]['score']
\* (0-based in the code): always the first entry, so the loop over
\* range(start_index - 1, -1, -1) has nothing to visit
StartIndex(scoring_pages) ==
    CHOOSE i \in 1..Len(scoring_pages) :
        /\ scoring_pages[i].score = scoring_pages[1].score
        /\ \A j \in 1..(i - 1) : scoring_pages[j].score # scoring_pages[1].score

\* an expansion test that accepts any later page
IsNextPage_AnyLater(selected, next_page) == next_page > Max(PageNums(selected))

\* if next_page == max(selected_page_nums) + 1
IsNextPage(selected, next_page) == next_page = Max(PageNums(selected)) + 1

\* the loop "for i in range(start_index + 1, len(scoring_pages))", from entry i on
RECURSIVE ExpandForward(_, _, _)
ExpandForward(selected, scoring_pages, i) ==
    IF i > Len(scoring_pages) THEN selected
    ELSE IF IsNextPage(selected, scoring_pages[i].page)
         THEN LET longer == Append(selected, scoring_pages[i])
              IN IF Len(longer) >= MaxTocPages THEN longer
                 ELSE ExpandForward(longer, scoring_pages, i + 1)
         ELSE selected

\* the pages the expansion selects, before "if len(selected_pages) < 2"
Expansion(page_scores) ==
    LET scoring_pages == ScoringPages(SortedByScore(page_scores))
    IN IF scoring_pages = <<>> THEN <<>>
       ELSE LET start_index == StartIndex(scoring_pages)
            IN ExpandForward(<<scoring_pages[start_index]>>, scoring_pages, start_index + 1)

\* a selection that is returned as the expansion left it
Backfill_None(selected, sorted_pages) == selected

\* "if len(selected_pages) < 2": the best page not selected yet is appended
Backfill(selected, sorted_pages) ==
    IF Len(selected) >= 2 THEN selected
    ELSE LET other(pg) == pg.page \notin PageNums(selected)
             rest == SelectSeq(sorted_pages, other)
         IN IF rest = <<>> THEN selected ELSE Append(selected, rest[1])

\* TextbookParser._select_best_pages
SelectBestPages(page_scores) ==
    IF page_scores = <<>> THEN <<>>
    ELSE LET sorted_pages == SortedByScore(page_scores)
         IN IF ScoringPages(sorted_pages) = <<>>
            THEN SubSeq(sorted_pages, 1, IF Len(sorted_pages) < 2 THEN Len(sorted_pages) ELSE 2)
            ELSE SortedByPage(Backfill(Expansion(page_scores), sorted_pages))

\* _heuristic_scan of a file fitz can open: with no page of positive score the
\* first pages that carry text are the TOC text (need_ai_guess), else the pages
\* _select_best_pages returns
HeuristicScan(f, page_scores) ==
    IF page_scores = <<>>
    THEN [pages |-> [i \in 1..(IF f.text_pages < 10 THEN f.text_pages ELSE 10) |-> i],
          need_ai_guess |-> TRUE]
    ELSE LET best_pages == SelectBestPages(SortedByScore(page_scores))
         IN [pages |-> [i \in 1..Len(best_pages) |-> best_pages[i].page],
             need_ai_guess |-> FALSE]

\* ------------------------------------------------------------------------
\* Initial values shared by both specifications
\* ------------------------------------------------------------------------
NoLocals == [toc_len |-> 0, toc_source |-> "unknown", ocr_confidence |-> 0,
             ocr_ran |-> FALSE, ocr_pages |-> FALSE, chapters_count |-> 0,
             llm_timeout |-> FALSE, stage |-> "none"]

\* progress_callback(stage, current, total): the stage of the last event is kept
Emit(locals, stage) == [locals EXCEPT !.stage = stage]

NoRow == [processing_status |-> "none", ocr_confidence |-> 0, total_chapters |-> 0]

SemInit ==
    /\ semValue = MaxConcurrent
    /\ currentTasks = {}

NoCall == [fn |-> "none", arg |-> <<>>, ret |-> <<>>]

\* no process_pdf run yet. events is the order in which the run called
\* progress_callback and process_pdf_page
NoRun == [pc |-> "idle", k |-> 0, idx |-> 0, results |-> <<>>, errors |-> <<>>,
          confidence_scores |-> <<>>, events |-> <<>>, ret |-> [success |-> FALSE]]

HarnessInit ==
    /\ hpc = [c \in Callers |-> "idle"]
    /\ harg = [c \in Callers |-> 0]
    /\ call = NoCall
    /\ engine = NoRun

PipeInit ==
    /\ nextId = 1
    /\ file = [d \in Docs |-> NoFile]
    /\ pc = [d \in Docs |-> "none"]
    /\ doc = [d \in Docs |-> NoRow]
    /\ progress = EmptyBag
    /\ subsections = EmptyBag
    /\ loc = [d \in Docs |-> NoLocals]
    /\ result = [d \in Docs |-> "none"]

Init == SemInit /\ HarnessInit /\ PipeInit

\* ------------------------------------------------------------------------
\* upload_document (PDF branch) and HybridDocumentProcessor
\* ------------------------------------------------------------------------
\* _update_document_status: UPDATE documents SET <the given fields> WHERE id = d
UpdateDocumentStatus(row, upd) ==
    [f \in DOMAIN row |-> IF f \in DOMAIN upd THEN upd[f] ELSE row[f]]

\* path selection that follows the validator's verdict
SelectPath_ByScan(v) == IF ~v.is_scan THEN "fast" ELSE "ocr"

\* process_document, path selection:
\* if validation['text_ratio'] >= self.TEXT_RATIO_THRESHOLD: fast path, else OCR path
SelectPath(v) == IF ~RatioBelow(v, TEXT_RATIO_THRESHOLD) THEN "fast" ELSE "ocr"

\* parse_textbook as called by _fast_path: with an outline the bookmark branch
\* evaluates len(book_result['toc']) of an undefined name and raises; a file
\* fitz cannot open makes _heuristic_scan raise from its except block; else
\* the heuristic scan of the native text layer answers
ParseTextbook(f) ==
    IF ~f.readable \/ f.outline
    THEN [raised |-> TRUE, source |-> "none"]
    ELSE [raised |-> FALSE, source |-> "scan"]

\* results of OCREngine.process_pdf over the first pages of a file:
\* success False when the file cannot be opened; else the mean confidence of
\* the pages with confidence > 0 (0.0 when there is none), whether any page
\* succeeded (has_pages) and whether any page carries text (scored)
ConfLevels == {0, 45, 90}

OcrFailure == [success |-> FALSE, avg_confidence |-> 0, has_pages |-> FALSE, scored |-> FALSE]

OcrResults(f) ==
    {OcrFailure} \cup
    IF ~f.readable THEN {}
    ELSE {r \in [success : {TRUE}, avg_confidence : ConfLevels,
                 has_pages : BOOLEAN, scored : BOOLEAN] :
            /\ r.scored => r.has_pages /\ r.avg_confidence > 0
            /\ ~r.has_pages => r.avg_confidence = 0}

\* the failure transition that also deletes the document's chapters
MarkFailed_Rollback(d, reason) ==
    /\ doc' = [doc EXCEPT ![d] = UpdateDocumentStatus(@, [processing_status |-> "failed"])]
    /\ result' = [result EXCEPT ![d] = reason]
    /\ progress' = SetToBag({r \in BagToSet(progress) : r[1] # d})
    /\ subsections' = SetToBag({r \in BagToSet(subsections) : r[1] # d})

\* the except blocks of _fast_path / _ocr_path / process_document:
\* _update_document_status(processing_status='failed'), and process_document
\* returns {'success': False, 'error': str(e)}
MarkFailed(d, reason) ==
    /\ doc' = [doc EXCEPT ![d] = UpdateDocumentStatus(@, [processing_status |-> "failed"])]
    /\ result' = [result EXCEPT ![d] = reason]
    /\ UNCHANGED <<progress, subsections>>

\* create_document: the row is inserted with processing_status="processing";
\* ids are assigned in upload order
CreateDocument(d, f) ==
    /\ d = nextId
    /\ pc[d] = "none"
    /\ file' = [file EXCEPT ![d] = f]
    /\ doc' = [doc EXCEPT ![d] =
                  UpdateDocumentStatus(@, [processing_status |-> "processing"])]
    /\ pc' = [pc EXCEPT ![d] = "uploaded"]
    /\ nextId' = nextId + 1
    /\ UNCHANGED <<progress, subsections, loc, result>>
    /\ UNCHANGED <<semVars, harnessVars>>

\* upload_document: pre-validation, UPDATE ... processing_status = "pending";
\* a scan goes to the gate, any other PDF has its background task created
SetPending(d) ==
    /\ pc[d] = "uploaded"
    /\ doc' = [doc EXCEPT ![d] =
                  UpdateDocumentStatus(@, [processing_status |-> "pending"])]
    /\ pc' = [pc EXCEPT ![d] = IF Validate(file[d]).is_scan THEN "gate" ELSE "task"]
    /\ UNCHANGED <<nextId, file, progress, subsections, loc, result>>
    /\ UNCHANGED <<semVars, harnessVars>>

\* upload_document: acquired = await ocr_semaphore.acquire(task_id) finds no
\* free permit and suspends inside the semaphore
GateBlock(d) ==
    /\ pc[d] = "gate"
    /\ semValue = 0
    /\ pc' = [pc EXCEPT ![d] = "gate_wait"]
    /\ UNCHANGED <<nextId, file, doc, progress, subsections, loc, result>>
    /\ UNCHANGED <<semVars, harnessVars>>

\* upload_document: the acquire completes (at once, or after the wait), then
\* asyncio.create_task(process_document_async()) and the handler returns
GateAcquire(d) ==
    /\ pc[d] \in {"gate", "gate_wait"}
    /\ SemAcquire(TaskId(d))
    /\ pc' = [pc EXCEPT ![d] = "task"]
    /\ UNCHANGED <<nextId, file, doc, progress, subsections, loc, result>>
    /\ UNCHANGED harnessVars

\* process_document: detection and path selection
Detect(d) ==
    /\ pc[d] = "task"
    /\ pc' = [pc EXCEPT ![d] = SelectPath(Validate(file[d]))]
    /\ loc' = [loc EXCEPT ![d] = Emit(@, "detecting")]
    /\ UNCHANGED <<nextId, file, doc, progress, subsections, result>>
    /\ UNCHANGED <<semVars, harnessVars>>

\* _fast_path: process_uploaded_document (parse, split, embed) returns or raises
FastExtract(d, ok) ==
    /\ pc[d] = "fast"
    /\ IF ok
       THEN /\ pc' = [pc EXCEPT ![d] = "fast_toc"]
            /\ UNCHANGED <<doc, result, progress, subsections>>
       ELSE /\ MarkFailed(d, "extract_error")
            /\ pc' = [pc EXCEPT ![d] = "done"]
    /\ loc' = [loc EXCEPT ![d] = Emit(@, "extracting")]
    /\ UNCHANGED <<nextId, file>>
    /\ UNCHANGED <<semVars, harnessVars>>

\* _fast_path: TOC text from parse_textbook, or from the first 3 chunks when
\* parse_textbook raised
FastToc(d, len) ==
    /\ pc[d] = "fast_toc"
    /\ LET p == ParseTextbook(file[d])
       IN /\ p.raised => len # 0
          /\ loc' = [loc EXCEPT ![d].toc_len = len,
                                ![d].toc_source = IF p.raised THEN "chunks" ELSE p.source,
                                ![d].stage = "extracting_toc"]
    /\ pc' = [pc EXCEPT ![d] = "fast_chapters"]
    /\ UNCHANGED <<nextId, file, doc, progress, subsections, result>>
    /\ UNCHANGED <<semVars, harnessVars>>

\* _fast_path: chapter extraction; every exception is caught and leaves
\* chapters_count = 0
FastChapters(d, resp, k) ==
    /\ pc[d] = "fast_chapters"
    /\ k \in 0..Len(resp.chapters)
    /\ IF loc[d].toc_len # 0
       THEN LET r == ExtractChaptersFromText(Store, d, loc[d].toc_len, resp, k)
            IN /\ progress' = r.st.progress
               /\ subsections' = r.st.subsections
               /\ loc' = [loc EXCEPT ![d].chapters_count = Len(r.chapters),
                                     ![d].llm_timeout = r.llm_called /\ resp.kind = "timeout"]
       ELSE UNCHANGED <<progress, subsections, loc>>
    /\ pc' = [pc EXCEPT ![d] = "fast_finish"]
    /\ UNCHANGED <<nextId, file, doc, result>>
    /\ UNCHANGED <<semVars, harnessVars>>

\* _fast_path: the final _update_document_status(completed, 1.0, chapters_count);
\* when the store raises there, the except blocks record failed
FastFinish(d, dbok) ==
    /\ pc[d] = "fast_finish"
    /\ IF dbok
       THEN /\ doc' = [doc EXCEPT ![d] = UpdateDocumentStatus(@,
                         [processing_status |-> "completed", ocr_confidence |-> 100,
                          total_chapters |-> loc[d].chapters_count])]
            /\ result' = [result EXCEPT ![d] = "ok"]
            /\ UNCHANGED <<progress, subsections>>
       ELSE MarkFailed(d, "db_error")
    /\ pc' = [pc EXCEPT ![d] = "done"]
    /\ loc' = [loc EXCEPT ![d] = Emit(NoLocals, "completed")]
    /\ UNCHANGED <<nextId, file>>
    /\ UNCHANGED <<semVars, harnessVars>>

\* _ocr_path: _update_document_status(processing_status='ocr_processing')
OcrStart(d) ==
    /\ pc[d] = "ocr"
    /\ doc' = [doc EXCEPT ![d] =
                  UpdateDocumentStatus(@, [processing_status |-> "ocr_processing"])]
    /\ pc' = [pc EXCEPT ![d] = "ocr_bookmark"]
    /\ UNCHANGED <<nextId, file, progress, subsections, loc, result>>
    /\ UNCHANGED <<semVars, harnessVars>>

\* _ocr_path, first step: doc.get_toc(); bookmarks give the TOC text with
\* ocr_confidence = 1.0, else (no bookmarks, or fitz.open raised) OCR is needed
OcrBookmark(d, len) ==
    /\ pc[d] = "ocr_bookmark"
    /\ IF file[d].readable /\ file[d].outline
       THEN /\ len # 0
            /\ loc' = [loc EXCEPT ![d].toc_len = len,
                                  ![d].toc_source = "bookmark",
                                  ![d].ocr_confidence = 100]
            /\ pc' = [pc EXCEPT ![d] = "ocr_chapters"]
       ELSE /\ len = 0
            /\ UNCHANGED loc
            /\ pc' = [pc EXCEPT ![d] = "ocr_recognize"]
    /\ UNCHANGED <<nextId, file, doc, progress, subsections, result>>
    /\ UNCHANGED <<semVars, harnessVars>>

\* _ocr_path, second step: ocr_result = await asyncio.to_thread(
\* self.ocr_engine.process_pdf, ...); page scoring and TOC page selection
OcrRecognize(d, r, len) ==
    /\ pc[d] = "ocr_recognize"
    /\ r \in OcrResults(file[d])
    /\ IF ~r.success
       THEN /\ len = 0
            /\ MarkFailed(d, "ocr_failed")
            /\ pc' = [pc EXCEPT ![d] = "done"]
            /\ loc' = [loc EXCEPT ![d] = Emit(@, "ocr")]
       ELSE /\ r.scored => len # 0
            /\ loc' = [loc EXCEPT ![d].toc_len = len,
                                  ![d].toc_source =
                                      IF r.scored THEN "ocr_scan" ELSE "ocr_fallback",
                                  ![d].ocr_confidence = r.avg_confidence,
                                  ![d].ocr_ran = TRUE,
                                  ![d].ocr_pages = r.has_pages,
                                  ![d].stage = "ocr"]
            /\ pc' = [pc EXCEPT ![d] = "ocr_chapters"]
            /\ UNCHANGED <<doc, result, progress, subsections>>
    /\ UNCHANGED <<nextId, file>>
    /\ UNCHANGED <<semVars, harnessVars>>

\* _ocr_path, third step: extract_chapters_from_text over a TOC text longer
\* than 100 characters, else extract_chapters(ocr_result, ...), where
\* ocr_result is unbound when the text came from bookmarks; every exception
\* is caught and leaves chapters_count = 0. extract_chapters awaits its second
\* _llm_extract (_retry_with_more_pages) in a later step.
OcrChapters(d, resp, k) ==
    /\ pc[d] = "ocr_chapters"
    /\ k \in 0..Len(resp.chapters)
    /\ IF loc[d].toc_len # 0 /\ loc[d].toc_len > MinTocLen
       THEN LET r == ExtractChaptersFromText(Store, d, loc[d].toc_len, resp, k)
            IN /\ progress' = r.st.progress
               /\ subsections' = r.st.subsections
               /\ loc' = [loc EXCEPT ![d].chapters_count = Len(r.chapters),
                                     ![d].llm_timeout = r.llm_called /\ resp.kind = "timeout",
                                     ![d].stage = "processing"]
               /\ pc' = [pc EXCEPT ![d] = "ocr_finish"]
       ELSE IF ~loc[d].ocr_ran
            THEN /\ UNCHANGED <<progress, subsections>>
                 /\ loc' = [loc EXCEPT ![d] = Emit(@, "processing")]
                 /\ pc' = [pc EXCEPT ![d] = "ocr_finish"]
            ELSE LET r == ExtractChaptersFirst(Store, d, loc[d].ocr_pages, resp, k)
                 IN /\ progress' = r.st.progress
                    /\ subsections' = r.st.subsections
                    /\ loc' = [loc EXCEPT
                                 ![d].chapters_count = Len(r.chapters),
                                 ![d].llm_timeout = r.llm_called /\ resp.kind = "timeout",
                                 ![d].stage = "processing"]
                    /\ pc' = [pc EXCEPT ![d] = IF r.retry THEN "ocr_retry" ELSE "ocr_finish"]
    /\ UNCHANGED <<nextId, file, doc, result>>
    /\ UNCHANGED <<semVars, harnessVars>>

\* extract_chapters: return await self._retry_with_more_pages(...)
OcrRetry(d, resp, k) ==
    /\ pc[d] = "ocr_retry"
    /\ k \in 0..Len(resp.chapters)
    /\ LET r == RetryWithMorePages(Store, d, resp, k)
       IN /\ progress' = r.st.progress
          /\ subsections' = r.st.subsections
          /\ loc' = [loc EXCEPT ![d].chapters_count = Len(r.chapters),
                                ![d].llm_timeout = @ \/ resp.kind = "timeout"]
    /\ pc' = [pc EXCEPT ![d] = "ocr_finish"]
    /\ UNCHANGED <<nextId, file, doc, result>>
    /\ UNCHANGED <<semVars, harnessVars>>

\* _ocr_path: the final _update_document_status(completed, ocr_confidence,
\* chapters_count); when the store raises there, the except blocks record failed
OcrFinish(d, dbok) ==
    /\ pc[d] = "ocr_finish"
    /\ IF dbok
       THEN /\ doc' = [doc EXCEPT ![d] = UpdateDocumentStatus(@,
                         [processing_status |-> "completed",
                          ocr_confidence |-> loc[d].ocr_confidence,
                          total_chapters |-> loc[d].chapters_count])]
            /\ result' = [result EXCEPT ![d] = "ok"]
            /\ UNCHANGED <<progress, subsections>>
       ELSE MarkFailed(d, "db_error")
    /\ pc' = [pc EXCEPT ![d] = "done"]
    /\ loc' = [loc EXCEPT ![d] = Emit(NoLocals, "completed")]
    /\ UNCHANGED <<nextId, file>>
    /\ UNCHANGED <<semVars, harnessVars>>

\* get_document_status: the polling response is computed from the documents
\* row alone; for a failed document stage_message is one fixed sentence
GetDocumentStatus(d) ==
    LET st == IF doc[d].processing_status = "none" THEN "pending"
              ELSE doc[d].processing_status
    IN [status |-> st,
        stage_message |->
            CASE st = "pending" -> "waiting"
              [] st = "processing" -> "extracting text"
              [] st = "ocr_processing" -> "recognizing pages"
              [] st = "completed" -> "done"
              [] st = "failed" -> "processing failed, upload a clearer file"
              [] OTHER -> "",
        ocr_confidence |-> doc[d].ocr_confidence,
        total_chapters |-> doc[d].total_chapters]

\* One step of document d with inputs drawn from the given sets
DocStep(d, files, lens, resps, ocrs, dbs) ==
    \/ \E f \in files : CreateDocument(d, f)
    \/ SetPending(d)
    \/ GateBlock(d)
    \/ GateAcquire(d)
    \/ Detect(d)
    \/ \E ok \in BOOLEAN : FastExtract(d, ok)
    \/ \E len \in lens : FastToc(d, len)
    \/ \E resp \in resps, k \in 0..MaxChapters : FastChapters(d, resp, k)
    \/ \E dbok \in dbs : FastFinish(d, dbok)
    \/ OcrStart(d)
    \/ \E len \in lens \cup {0} : OcrBookmark(d, len)
    \/ \E r \in ocrs, len \in lens \cup {0} : OcrRecognize(d, r, len)
    \/ \E resp \in resps, k \in 0..MaxChapters : OcrChapters(d, resp, k)
    \/ \E resp \in resps, k \in 0..MaxChapters : OcrRetry(d, resp, k)
    \/ \E dbok \in dbs : OcrFinish(d, dbok)

\* Spec: NumDocs uploads in flight, each input drawn from a few cases
GateFiles ==
    {CorruptFile} \cup
    {f \in Files : f.readable /\ (f.outline => f.text_pages = 0)}

GateTocLens == {MinTocLen, MinTocLen + 1}

GateResponses == {r \in LlmResponses : r.kind = "timeout" \/ Len(r.chapters) = 1}

GateOcrResults ==
    {OcrFailure,
     [success |-> TRUE, avg_confidence |-> 45, has_pages |-> TRUE, scored |-> TRUE]}

Next ==
    \E d \in Docs :
        DocStep(d, GateFiles, GateTocLens, GateResponses, GateOcrResults, {TRUE})

Spec == Init /\ [][Next]_vars

\* DocSpec: the last SoloDocs uploads of a run, with every input of the
\* model. The earlier uploads have ended: a scanned PDF whose recognition
\* failed (it still holds its gate slot, nothing releases it), or a text PDF
\* whose text extraction failed.
EarlierDocs == 1..(NumDocs - SoloDocs)

LaterDocs == (NumDocs - SoloDocs + 1)..NumDocs

ScanFile == [readable |-> TRUE, total_pages |-> DocPages, text_pages |-> 0, outline |-> FALSE]

TextFile == [readable |-> TRUE, total_pages |-> DocPages, text_pages |-> DocPages,
             outline |-> FALSE]

FailedRow == [processing_status |-> "failed", ocr_confidence |-> 0, total_chapters |-> 0]

DocInit ==
    /\ HarnessInit
    /\ \E holders \in {1..h : h \in 0..MaxConcurrent} :
          /\ holders \subseteq EarlierDocs
          /\ currentTasks = {TaskId(d) : d \in holders}
          /\ semValue = MaxConcurrent - Cardinality(holders)
          /\ file = [d \in Docs |-> IF d \in holders THEN ScanFile
                                    ELSE IF d \in EarlierDocs THEN TextFile ELSE NoFile]
          /\ result = [d \in Docs |-> IF d \in holders THEN "ocr_failed"
                                      ELSE IF d \in EarlierDocs THEN "extract_error"
                                      ELSE "none"]
    /\ nextId = NumDocs - SoloDocs + 1
    /\ pc = [d \in Docs |-> IF d \in EarlierDocs THEN "done" ELSE "none"]
    /\ doc = [d \in Docs |-> IF d \in EarlierDocs THEN FailedRow ELSE NoRow]
    /\ progress = EmptyBag
    /\ subsections = EmptyBag
    /\ loc = [d \in Docs |-> NoLocals]

DocNext ==
    \E d \in LaterDocs :
        DocStep(d, Files, TocLens, LlmResponses, UNION {OcrResults(f) : f \in Files},
                BOOLEAN)

DocSpec == DocInit /\ [][DocNext]_vars

\* ------------------------------------------------------------------------
\* LiveSpec: NumDocs uploads of scanned and native-text PDFs under the asyncio
\* event loop, which runs every handler and task that is ready to run; every
\* external call returns
\* ------------------------------------------------------------------------
LiveFiles == {ScanFile, TextFile}

LiveTocLens == {MinTocLen}

LiveResponses == {r \in LlmResponses : r.kind = "chapters" /\ Len(r.chapters) = 1}

LiveOcrResults ==
    {[success |-> TRUE, avg_confidence |-> 90, has_pages |-> TRUE, scored |-> TRUE]}

LiveStep(d) == DocStep(d, LiveFiles, LiveTocLens, LiveResponses, LiveOcrResults, {TRUE})

LiveNext == \E d \in Docs : LiveStep(d)

LiveSpec ==
    /\ Init
    /\ [][LiveNext]_vars
    /\ \A d \in Docs : WF_vars(LiveStep(d))

\* ------------------------------------------------------------------------
\* SemSpec: coroutines calling acquire and release of one OCRSemaphore
\* ------------------------------------------------------------------------
\* a coroutine calls acquire(t): it is now inside "await self._semaphore.acquire()"
HCallAcquire(c, t) ==
    /\ hpc[c] = "idle"
    /\ hpc' = [hpc EXCEPT ![c] = "acquiring"]
    /\ harg' = [harg EXCEPT ![c] = t]
    /\ UNCHANGED <<call, engine>>
    /\ UNCHANGED semVars
    /\ UNCHANGED pipeVars

\* the awaited acquire completes and acquire returns True
HAcquireReturn(c) ==
    /\ hpc[c] = "acquiring"
    /\ SemAcquire(harg[c])
    /\ hpc' = [hpc EXCEPT ![c] = "idle"]
    /\ harg' = [harg EXCEPT ![c] = 0]
    /\ UNCHANGED <<call, engine>>
    /\ UNCHANGED pipeVars

\* a coroutine calls release(t) (synchronous), for any task id
HRelease(c, t) ==
    /\ hpc[c] = "idle"
    /\ SemRelease(t)
    /\ UNCHANGED harnessVars
    /\ UNCHANGED pipeVars

SemNext ==
    \/ \E c \in Callers, t \in TaskIds : HCallAcquire(c, t)
    \/ \E c \in Callers : HAcquireReturn(c)
    \/ \E c \in Callers, t \in TaskIds : HRelease(c, t)

SemSpec == Init /\ [][SemNext]_vars

\* ------------------------------------------------------------------------
\* ExtractSpec: the chapter extractors called for one document, again and
\* again, with any raw answer and any matched title lines
\* ------------------------------------------------------------------------
\* the document the extractors are called for
UnitDoc == 1

\* a function is called while no call is under way, and returns at once
UnitCall(fn, arg, ret) ==
    /\ call.fn = "none"
    /\ call' = [fn |-> fn, arg |-> arg, ret |-> ret]

\* the caller has taken the return value
XReturn ==
    /\ call.fn # "none"
    /\ call' = NoCall
    /\ UNCHANGED <<semVars, hpc, harg, engine>>
    /\ UNCHANGED pipeVars

\* ImprovedChapterExtractor._llm_extract
XLlmExtract(resp, k) ==
    /\ k \in 0..Len(resp.chapters)
    /\ LET r == LlmExtract(Store, UnitDoc, resp, k)
       IN /\ BagCardinality(r.st.progress) <= MaxRows
          /\ progress' = r.st.progress
          /\ subsections' = r.st.subsections
          /\ UnitCall("_llm_extract", resp, [ok |-> r.ok, chapters |-> r.chapters])
    /\ UNCHANGED <<semVars, hpc, harg, engine>>
    /\ UNCHANGED <<nextId, file, pc, doc, loc, result>>

\* ChapterDivider._heuristic_division
XHeuristicDivision(matches, doc_length) ==
    /\ UnitCall("_heuristic_division",
                [matches |-> matches, doc_length |-> doc_length],
                HeuristicDivision(matches, doc_length))
    /\ UNCHANGED <<semVars, hpc, harg, engine>>
    /\ UNCHANGED pipeVars

\* EnhancedChapterDivider.divide_document_into_chapters
XEnhancedDivide(resp, matches) ==
    /\ LET r == EnhancedDivide(Store, UnitDoc, resp, matches)
       IN /\ BagCardinality(r.st.progress) <= MaxRows
          /\ progress' = r.st.progress
          /\ subsections' = r.st.subsections
          /\ UnitCall("divide_document_into_chapters",
                      [resp |-> resp, matches |-> matches],
                      [chapters |-> r.chapters])
    /\ UNCHANGED <<semVars, hpc, harg, engine>>
    /\ UNCHANGED <<nextId, file, pc, doc, loc, result>>

ExtractNext ==
    \/ \E resp \in RawResponses, k \in 0..MaxRawLen : XLlmExtract(resp, k)
    \/ \E matches \in MatchLists, n \in DocLengths : XHeuristicDivision(matches, n)
    \/ \E resp \in RawResponses, matches \in MatchLists : XEnhancedDivide(resp, matches)
    \/ XReturn

ExtractSpec == Init /\ [][ExtractNext]_vars

\* ------------------------------------------------------------------------
\* RetrySpec: the two entry points of ImprovedChapterExtractor the orchestrator
\* calls, with any TOC text length, any page window and any answers
\* ------------------------------------------------------------------------
\* _llm_extract sends toc_text[:6000]
LlmTextLimit == 6000

RetryTocLens == TocLens \cup {LlmTextLimit, LlmTextLimit + 1}

\* extract_chapters_from_text(toc_text, ...): llm_calls counts the
\* _llm_extract calls it made; the text sent was cut when it is longer than
\* LlmTextLimit
XExtractChaptersFromText(toc_len, resp, k) ==
    /\ k \in 0..Len(resp.chapters)
    /\ LET r == ExtractChaptersFromText(Store, UnitDoc, toc_len, resp, k)
       IN /\ progress' = r.st.progress
          /\ subsections' = r.st.subsections
          /\ UnitCall("extract_chapters_from_text",
                      [truncated |-> toc_len > LlmTextLimit, resp |-> resp, k |-> k],
                      [chapters |-> r.chapters,
                       llm_calls |-> IF r.llm_called THEN 1 ELSE 0])
    /\ UNCHANGED <<semVars, hpc, harg, engine>>
    /\ UNCHANGED <<nextId, file, pc, doc, loc, result>>

\* extract_chapters(ocr_result, ...): the first _llm_extract over the selected
\* TOC pages (truncated: they are not all the pages of ocr_result), then
\* _retry_with_more_pages over all pages when fewer than 3 chapters came back
XExtractChapters(has_pages, truncated, resp, k, resp2, k2) ==
    /\ k \in 0..Len(resp.chapters)
    /\ k2 \in 0..Len(resp2.chapters)
    /\ LET r == ExtractChaptersFirst(Store, UnitDoc, has_pages, resp, k)
           r2 == RetryWithMorePages(r.st, UnitDoc, resp2, k2)
           st == IF r.retry THEN r2.st ELSE r.st
       IN /\ progress' = st.progress
          /\ subsections' = st.subsections
          /\ UnitCall("extract_chapters",
                      [truncated |-> truncated, resp |-> resp, k |-> k],
                      [chapters |-> IF r.retry THEN r2.chapters ELSE r.chapters,
                       llm_calls |-> IF r.retry THEN 2
                                     ELSE IF r.llm_called THEN 1 ELSE 0])
    /\ UNCHANGED <<semVars, hpc, harg, engine>>
    /\ UNCHANGED <<nextId, file, pc, doc, loc, result>>

RetryNext ==
    \/ \E toc_len \in RetryTocLens, resp \in LlmResponses, k \in 0..MaxChapters :
          XExtractChaptersFromText(toc_len, resp, k)
    \/ \E has_pages \in BOOLEAN, truncated \in BOOLEAN, resp \in LlmResponses,
          k \in 0..MaxChapters, resp2 \in LlmResponses, k2 \in 0..MaxChapters :
          XExtractChapters(has_pages, truncated, resp, k, resp2, k2)
    \/ XReturn

RetrySpec == Init /\ [][RetryNext]_vars

\* ------------------------------------------------------------------------
\* ParserSpec: TextbookParser called with any file and any page scores
\* ------------------------------------------------------------------------
\* TextbookParser._select_best_pages
XSelectBestPages(page_scores) ==
    /\ UnitCall("_select_best_pages", page_scores, SelectBestPages(page_scores))
    /\ UNCHANGED <<semVars, hpc, harg, engine>>
    /\ UNCHANGED pipeVars

\* TextbookParser.parse_textbook; page_scores are the pages of the file with
\* text and a positive score
XParseTextbook(f, page_scores) ==
    /\ Len(page_scores) <= f.text_pages
    /\ LET p == ParseTextbook(f)
           scan == HeuristicScan(f, page_scores)
       IN UnitCall("parse_textbook",
                   [file |-> f, page_scores |-> page_scores],
                   IF p.raised
                   THEN [raised |-> TRUE, source |-> p.source, pages |-> <<>>,
                         need_ai_guess |-> FALSE]
                   ELSE [raised |-> FALSE, source |-> p.source, pages |-> scan.pages,
                         need_ai_guess |-> scan.need_ai_guess])
    /\ UNCHANGED <<semVars, hpc, harg, engine>>
    /\ UNCHANGED pipeVars

\* the PDFs the validator is called with on its own: the unreadable file, and
\* readable files of 0..MaxPdfPages pages with any number of text pages
ValidatorFiles ==
    {CorruptFile} \cup
    {f \in [readable : {TRUE}, total_pages : 0..MaxPdfPages,
            text_pages : 0..MaxPdfPages, outline : BOOLEAN] :
        f.text_pages <= f.total_pages}

\* validate_pdf_before_upload(file_path)
XValidate(f) ==
    /\ UnitCall("validate_pdf_before_upload", f, Validate(f))
    /\ UNCHANGED <<semVars, hpc, harg, engine>>
    /\ UNCHANGED pipeVars

ParserNext ==
    \/ \E f \in ValidatorFiles : XValidate(f)
    \/ \E page_scores \in PageScoreLists : XSelectBestPages(page_scores)
    \/ \E f \in Files, page_scores \in PageScoreLists : XParseTextbook(f, page_scores)
    \/ XReturn

ParserSpec == Init /\ [][ParserNext]_vars

\* ------------------------------------------------------------------------
\* EngineSpec: one run of OCREngine.process_pdf over pages 1..k
\* ------------------------------------------------------------------------
\* what process_pdf_page does with one page: it fails (rendering or
\* recognition raised; the except block returns success False), or it
\* succeeds with the page's mean line confidence (0 with no line)
PageOutcomes == {[success |-> FALSE, confidence |-> 0]}
                \cup [success : {TRUE}, confidence : ConfLevels]

Sum(seq) ==
    LET RECURSIVE S(_)
        S(n) == IF n = 0 THEN 0 ELSE S(n - 1) + seq[n]
    IN S(Len(seq))

\* process_pdf up to the loop: _initialize() raises when PaddleOCR cannot be
\* loaded; fitz.open raising gives the success False result; else the loop
\* over pages_to_process = pages 1..k starts
EStart(k, init_ok, readable) ==
    /\ engine.pc = "idle"
    /\ engine' =
          IF ~init_ok THEN [engine EXCEPT !.pc = "raised", !.k = k]
          ELSE IF ~readable
          THEN [engine EXCEPT !.pc = "done", !.k = k,
                              !.ret = [success |-> FALSE, processed_pages |-> 0,
                                       avg_confidence |-> 0, errors |-> 1]]
          ELSE [engine EXCEPT !.pc = IF k = 0 THEN "finish" ELSE "report", !.k = k]
    /\ UNCHANGED <<semVars, hpc, harg, call>>
    /\ UNCHANGED pipeVars

\* loop body, first statement: progress_callback(idx + 1, len(pages_to_process), ...)
EReport ==
    /\ engine.pc = "report"
    /\ engine' = [engine EXCEPT
                     !.pc = "page",
                     !.events = Append(@, [kind |-> "progress",
                                           current |-> engine.idx + 1,
                                           total |-> engine.k])]
    /\ UNCHANGED <<semVars, hpc, harg, call>>
    /\ UNCHANGED pipeVars

\* a loop body that leaves the loop at the first failed page
EProcessPage_StopAtFailure(o) ==
    /\ engine.pc = "page"
    /\ engine' = [engine EXCEPT
          !.pc = IF engine.idx + 1 = engine.k \/ ~o.success THEN "finish" ELSE "report",
          !.idx = @ + 1,
          !.results = IF o.success THEN Append(@, engine.idx + 1) ELSE @,
          !.confidence_scores =
              IF o.success /\ o.confidence > 0 THEN Append(@, o.confidence) ELSE @,
          !.errors = IF o.success THEN @ ELSE Append(@, engine.idx + 1),
          !.events = Append(@, [kind |-> "page", page_num |-> engine.idx + 1,
                                success |-> o.success])]
    /\ UNCHANGED <<semVars, hpc, harg, call>>
    /\ UNCHANGED pipeVars

\* loop body, rest: result = self.process_pdf_page(...); a successful page goes
\* to results (its confidence to confidence_scores when positive), a failed
\* one to errors with its page number; then the next page
EProcessPage(o) ==
    /\ engine.pc = "page"
    /\ engine' = [engine EXCEPT
          !.pc = IF engine.idx + 1 = engine.k THEN "finish" ELSE "report",
          !.idx = @ + 1,
          !.results = IF o.success THEN Append(@, engine.idx + 1) ELSE @,
          !.confidence_scores =
              IF o.success /\ o.confidence > 0 THEN Append(@, o.confidence) ELSE @,
          !.errors = IF o.success THEN @ ELSE Append(@, engine.idx + 1),
          !.events = Append(@, [kind |-> "page", page_num |-> engine.idx + 1,
                                success |-> o.success])]
    /\ UNCHANGED <<semVars, hpc, harg, call>>
    /\ UNCHANGED pipeVars

\* after the loop: the statistics and the success True result
EFinish ==
    /\ engine.pc = "finish"
    /\ engine' = [engine EXCEPT
          !.pc = "done",
          !.ret = [success |-> TRUE,
                   processed_pages |-> Len(engine.results),
                   avg_confidence |->
                       IF engine.confidence_scores = <<>> THEN 0
                       ELSE Sum(engine.confidence_scores) \div Len(engine.confidence_scores),
                   errors |-> Len(engine.errors)]]
    /\ UNCHANGED <<semVars, hpc, harg, call>>
    /\ UNCHANGED pipeVars

EngineNext ==
    \/ \E k \in 0..EnginePages, init_ok \in BOOLEAN, readable \in BOOLEAN :
          EStart(k, init_ok, readable)
    \/ EReport
    \/ \E o \in PageOutcomes : EProcessPage(o)
    \/ EFinish

EngineSpec == Init /\ [][EngineNext]_vars

\* ------------------------------------------------------------------------
\* Properties
\* ------------------------------------------------------------------------
Status(d) == doc[d].processing_status

Terminal(d) == Status(d) \in {"completed", "failed"}

ProgressOf(d) == {r \in BagToSet(progress) : r[1] = d}

SubsectionsOf(d) == {r \in BagToSet(subsections) : r[1] = d}

\* C1: the number of task ids that completed acquire and were not released
\* never exceeds MaxConcurrent, and while MaxConcurrent task ids are active no
\* further acquire completes (SemSpec).
C1_GateNeverExceedsCapacity ==
    /\ [](Cardinality(currentTasks) <= MaxConcurrent)
    /\ [][Cardinality(currentTasks) = MaxConcurrent =>
            \A c \in Callers : hpc[c] = "acquiring" => hpc'[c] = "acquiring"]_vars

\* C1 witness: all slots are held by distinct task ids and a further acquire
\* is suspended
C1_Witness ==
    /\ Cardinality(currentTasks) = MaxConcurrent
    /\ \E c \in Callers : hpc[c] = "acquiring" /\ harg[c] \notin currentTasks

\* C2: a document that reached completed or failed no longer has its task id
\* in the gate's active set.
C2_SlotReleasedAtExit ==
    \A d \in Docs : Terminal(d) => TaskId(d) \notin currentTasks

\* C3: the recognition step of a document (OCREngine.process_pdf) runs only
\* while the document's task holds a gate slot.
C3_GateBeforeRecognition ==
    [][\A d \in Docs :
          pc[d] = "ocr_recognize" /\ pc'[d] # "ocr_recognize" =>
              TaskId(d) \in currentTasks]_vars

\* C4: no document whose recognition run had avg_confidence below
\* OCR_CONFIDENCE_THRESHOLD is completed: a completed document's recorded
\* confidence (the run's avg_confidence, 1.0 without a run) is at least the
\* threshold.
C4_LowConfidenceNeverCompleted ==
    \A d \in Docs :
        Status(d) = "completed" => doc[d].ocr_confidence >= OCR_CONFIDENCE_THRESHOLD

\* C5: processing_status starts in pending and changes only along
\* pending -> {queued, processing, ocr_processing}, queued -> ocr_processing,
\* {processing, ocr_processing} -> {completed, failed}.
C5Edges ==
    {<<"none", "pending">>,
     <<"pending", "queued">>, <<"pending", "processing">>,
     <<"pending", "ocr_processing">>, <<"queued", "ocr_processing">>,
     <<"processing", "completed">>, <<"processing", "failed">>,
     <<"ocr_processing", "completed">>, <<"ocr_processing", "failed">>}

C5_StatusEdges ==
    [][\A d \in Docs :
          Status(d)' # Status(d) => <<Status(d), Status(d)'>> \in C5Edges]_vars

\* C6: path selection agrees with the validator's verdict: the fast path is
\* taken exactly when is_scan is false.
C6_PathFollowsScanVerdict ==
    [][\A d \in Docs :
          pc[d] = "task" /\ pc'[d] # "task" =>
              (pc'[d] = "fast" <=> ~Validate(file[d]).is_scan)]_vars

\* C7: a scanned document that reaches the gate while every slot is held is
\* rejected without waiting and its status becomes queued.
C7_FullGateQueues ==
    [][\A d \in Docs :
          pc[d] = "gate" /\ semValue = 0 /\ pc'[d] # "gate" =>
              /\ Status(d)' = "queued"
              /\ pc'[d] # "gate_wait"]_vars

\* C8: a document whose generative-extraction call timed out transitions to
\* failed, never to completed.
C8_TimeoutFails ==
    [][\A d \in Docs :
          loc[d].llm_timeout /\ Status(d)' # Status(d) => Status(d)' = "failed"]_vars

\* C9: the transition of a document to failed changes only its status: the
\* chapter and subsection records persisted so far stay exactly as they were.
C9_FailureKeepsChapters ==
    [][\A d \in Docs :
          Status(d)' = "failed" /\ Status(d) # "failed" =>
              /\ progress' = progress
              /\ subsections' = subsections
              /\ doc'[d] = [doc[d] EXCEPT !.processing_status = "failed"]]_vars

\* C9 witness: a failed document with persisted chapters and subsections
C9_Witness ==
    \E d \in Docs :
        /\ Status(d) = "failed"
        /\ ProgressOf(d) # {}
        /\ SubsectionsOf(d) # {}

\* C10: the reason of a failure is recorded with the document and is what
\* polling the status returns.
C10_FailureReasonReported ==
    \A d \in Docs :
        Status(d) = "failed" => GetDocumentStatus(d).stage_message = result[d]

StrictlyAscending(chapters) ==
    \A i \in 1..(Len(chapters) - 1) :
        chapters[i].chapter_number < chapters[i + 1].chapter_number

\* C11: every non-empty chapter list an extractor returns (generative path
\* _llm_extract, regex fallback _heuristic_division) has pairwise distinct
\* chapter numbers in strictly ascending order (ExtractSpec).
C11_ChapterNumbersAscending ==
    call.fn \in {"_llm_extract", "_heuristic_division"} /\ call.ret.chapters # <<>> =>
        StrictlyAscending(call.ret.chapters)

\* C12: when no chapter pattern matches the text at all, the regex fallback
\* returns exactly one chapter, whatever the length of the text (ExtractSpec).
C12_NoMatchGivesOneChapter ==
    /\ call.fn = "_heuristic_division" /\ call.arg.matches = <<>> =>
           Len(call.ret.chapters) = 1
    /\ call.fn = "divide_document_into_chapters" /\ call.arg.resp.kind # "chapters"
           /\ call.arg.matches = <<>> =>
           Len(call.ret.chapters) = 1

\* C13: the store holds at most one Progress row per (document_id,
\* chapter_number) and at most one subsections row per (document_id,
\* chapter_number, subsection_number) (ExtractSpec).
C13_StoreKeysUnique ==
    /\ \A key \in BagToSet(progress) : CopiesIn(key, progress) = 1
    /\ \A key \in BagToSet(subsections) : CopiesIn(key, subsections) = 1

\* C14: for a PDF with an embedded outline, TOC location gives the outline's
\* text with provenance bookmark and calls no recognition, on the fast path
\* and on the OCR path (DocSpec).
C14_BookmarkTierNoRecognition ==
    \A d \in Docs :
        file[d].readable /\ file[d].outline /\ pc[d] \in {"fast_chapters", "ocr_chapters"} =>
            /\ loc[d].toc_source = "bookmark"
            /\ ~loc[d].ocr_ran

Consecutive(pages) ==
    \A i \in 1..(Len(pages) - 1) : pages[i + 1].page = pages[i].page + 1

\* C15: when _select_best_pages does not backfill (the expansion selected two
\* or more pages, or there is exactly one scored page), the selected page
\* numbers are consecutive (ParserSpec).
C15_SelectionContiguous ==
    call.fn = "_select_best_pages"
        /\ (Len(Expansion(call.arg)) >= 2 \/ Len(call.arg) = 1) =>
        /\ call.ret # <<>>
        /\ Consecutive(call.ret)

\* C15 witness: the expansion selected two or more pages and left out a
\* page that scores at least the threshold
C15_Witness ==
    /\ call.fn = "_select_best_pages"
    /\ Len(Expansion(call.arg)) >= 2
    /\ Len(ScoringPages(call.arg)) > Len(call.ret)

\* C16: the provenance parse_textbook records names the tier that produced
\* the TOC text: scan only for text of the scored page selection, never for
\* the first-pages fallback (ParserSpec).
C16_ProvenanceNamesTier ==
    call.fn = "parse_textbook" /\ ~call.ret.raised =>
        /\ call.ret.source = "bookmark" <=> call.arg.file.outline
        /\ call.ret.source = "scan" <=> ~call.arg.file.outline /\ ~call.ret.need_ai_guess

PageEvents == SelectSeq(engine.events, LAMBDA e : e.kind = "page")

ProgressEvents == SelectSeq(engine.events, LAMBDA e : e.kind = "progress")

\* C17: a process_pdf run that opened the PDF attempts every one of the k
\* requested pages whatever fails, records every failed page in errors,
\* returns a result, and results plus errors count k pages (EngineSpec).
C17_PageFailureDoesNotStopRun ==
    engine.pc = "done" /\ engine.events # <<>> =>
        /\ engine.ret.success
        /\ [i \in 1..Len(PageEvents) |-> PageEvents[i].page_num] = [i \in 1..engine.k |-> i]
        /\ \A i \in 1..Len(PageEvents) :
              ~PageEvents[i].success <=>
                  \E j \in 1..Len(engine.errors) : engine.errors[j] = PageEvents[i].page_num
        /\ engine.ret.processed_pages + engine.ret.errors = engine.k

\* C17 witness: a finished run in which a page failed and a later page succeeded
C17_Witness ==
    /\ engine.pc = "done"
    /\ \E i \in 1..Len(engine.errors), j \in 1..Len(engine.results) :
          engine.errors[i] < engine.results[j]

\* C18: in one process_pdf run the progress callback is invoked with
\* current = 1, 2, ..., k in order and total k, k times in all, and the
\* invocation with current = i comes after page i was processed (EngineSpec).
C18_ProgressAfterEachPage ==
    /\ \A i \in 1..Len(ProgressEvents) :
          ProgressEvents[i].current = i /\ ProgressEvents[i].total = engine.k
    /\ engine.pc = "done" /\ engine.ret.success => Len(ProgressEvents) = engine.k
    /\ \A j \in 1..Len(engine.events) :
          engine.events[j].kind = "progress" =>
              \E h \in 1..(j - 1) :
                  /\ engine.events[h].kind = "page"
                  /\ engine.events[h].page_num = engine.events[j].current

\* C19: every progress event of the orchestrator, on the fast path and on
\* the OCR path, has one of the stages detecting, extracting, ocr,
\* processing, vectorizing, completed (DocSpec).
C19_ProgressStagesClosed ==
    \A d \in Docs :
        loc[d].stage # "none" =>
            loc[d].stage \in {"detecting", "extracting", "ocr", "processing",
                              "vectorizing", "completed"}

\* C20: every result of validate_pdf_before_upload, for empty and unreadable
\* files too, has text_ratio = text_pages / total_pages (0 when total_pages
\* is 0) and is_scan exactly when text_ratio < 0.2 (ParserSpec).
C20_ScanIffRatioBelowFifth ==
    call.fn = "validate_pdf_before_upload" =>
        LET v == call.ret
        IN /\ v.ratio_set <=> v.total_pages > 0
           /\ v.is_scan <=> IF v.total_pages = 0 THEN TRUE
                            ELSE 5 * v.text_pages < v.total_pages

\* C21: an unreadable or corrupt PDF gets an error outcome from the validator,
\* never a normal result with zero pages, and the pipeline does not go on to
\* process it: its task never enters the fast path or the OCR path (DocSpec).
C21_CorruptFileNotProcessed ==
    \A d \in Docs :
        pc[d] # "none" /\ ~file[d].readable =>
            pc[d] \in {"uploaded", "gate", "gate_wait", "task", "done"}

\* C22: release is idempotent: a release call (a step of a coroutine that is
\* not inside acquire) either changes nothing, or removes one active task id
\* and frees exactly one permit; a release of an id that is not active never
\* frees a permit, and the free permits never exceed MaxConcurrent (SemSpec).
C22_ReleaseIdempotent ==
    /\ [](semValue <= MaxConcurrent)
    /\ [][hpc' = hpc =>
            \/ semValue' = semValue /\ currentTasks' = currentTasks
            \/ /\ semValue' = semValue + 1
               /\ \E t \in currentTasks : currentTasks' = currentTasks \ {t}]_vars

\* C22 witness: an id was acquired twice and released; it is no longer active
\* while a permit is still taken, so a second release of it must not free one
C22_Witness ==
    /\ currentTasks = {}
    /\ semValue < MaxConcurrent
    /\ \A c \in Callers : hpc[c] = "idle"

\* C25: in every reachable state of OCRSemaphore the free permits of the
\* underlying semaphore equal max_concurrent minus the size of the active-task
\* set, the available_slots of get_status, also after two acquires with the
\* same task id (SemSpec).
C25_PermitsMatchActiveSet ==
    /\ semValue = MaxConcurrent - Cardinality(currentTasks)
    /\ semValue = GetStatus.available_slots

\* C23: with every external call returning, every uploaded PDF eventually
\* reaches completed or failed, however many scanned documents are uploaded
\* together; a document waiting for a gate slot is eventually served
\* (LiveSpec).
C23_EveryUploadTerminates ==
    \A d \in Docs : (pc[d] # "none") ~> Terminal(d)

\* C24: a document processed on the fast path never acquires, waits on or
\* holds a gate slot: while it is on the fast path its task id is not in the
\* gate's active set (DocSpec).
C24_FastPathHoldsNoSlot ==
    \A d \in Docs :
        pc[d] \in {"fast", "fast_toc", "fast_chapters", "fast_finish"} =>
            TaskId(d) \notin currentTasks

\* C26: every completed document has at least one persisted chapter: when TOC
\* location or chapter extraction yields nothing, a single default chapter is
\* synthesized (DocSpec).
C26_CompletedHasChapter ==
    \A d \in Docs : Status(d) = "completed" => ProgressOf(d) # {}

\* C27: when a document is completed, the total_chapters recorded for it is
\* the number of chapter records persisted for it, also when a first
\* extraction attempt was followed by a retry (DocSpec).
C27_TotalChaptersMatchesStore ==
    \A d \in Docs :
        Status(d) = "completed" => doc[d].total_chapters = Cardinality(ProgressOf(d))

\* C29: on both entry points the orchestrator uses, an extract call makes at
\* most two generative extractions; it makes exactly one when the first
\* returned at least 3 chapters, and exactly two when the first returned
\* fewer than 3 chapters from a text that was truncated (RetrySpec).
C29_RetryOnceWhenTruncated ==
    call.fn \in {"extract_chapters_from_text", "extract_chapters"}
        /\ call.ret.llm_calls >= 1 =>
        LET returned == IF call.arg.resp.kind = "chapters"
                           /\ call.arg.k = Len(call.arg.resp.chapters)
                        THEN Len(call.arg.resp.chapters) ELSE 0
        IN /\ call.ret.llm_calls <= 2
           /\ returned >= MinChapters => call.ret.llm_calls = 1
           /\ returned \in 1..(MinChapters - 1) /\ call.arg.truncated =>
                  call.ret.llm_calls = 2

\* C28: given at least one page of score >= 5, _select_best_pages returns a
\* highest-scoring page together with the maximal run of consecutive page
\* numbers around it whose scores are all >= 5, toward lower and toward higher
\* page numbers; fewer than MaxTocPages pages are scanned here, so the cap
\* leaves no page out (ParserSpec).
C28_ExpansionIsMaximalRun ==
    call.fn = "_select_best_pages"
        /\ (\E i \in 1..Len(call.arg) : call.arg[i].score >= MinScoreThreshold) =>
        LET good == {call.arg[i].page : i \in {j \in 1..Len(call.arg) :
                                                call.arg[j].score >= MinScoreThreshold}}
            top == {call.arg[i].page : i \in {j \in 1..Len(call.arg) :
                        \A m \in 1..Len(call.arg) : call.arg[m].score <= call.arg[j].score}}
            Run(b) == {p \in good : \A q \in 1..ScanPages :
                           (p <= q /\ q <= b) \/ (b <= q /\ q <= p) => q \in good}
        IN \E b \in top : Run(b) \subseteq PageNums(call.ret)

\* C30: given at least 2 scored pages, _select_best_pages returns at least 2
\* distinct pages of them; when the expansion selected one page only, the
\* page added to it is a highest-scoring one of the others; and 2 pages are
\* returned when no page reaches the threshold (ParserSpec).
C30_AtLeastTwoPages ==
    call.fn = "_select_best_pages" /\ Len(call.arg) >= 2 =>
        /\ Len(call.ret) >= 2
        /\ Cardinality(PageNums(call.ret)) = Len(call.ret)
        /\ \A i \in 1..Len(call.ret) : \E j \in 1..Len(call.arg) : call.ret[i] = call.arg[j]
        /\ Len(Expansion(call.arg)) = 1 =>
               /\ Len(call.ret) = 2
               /\ \E i \in 1..2 :
                     /\ call.ret[i].page \notin PageNums(Expansion(call.arg))
                     /\ \A j \in 1..Len(call.arg) :
                           call.arg[j].page \notin PageNums(call.ret) =>
                               call.arg[j].score <= call.ret[i].score

\* C30 witness: the expansion stopped at one page although other pages were
\* scored, and a second page was added
C30_Witness ==
    /\ call.fn = "_select_best_pages"
    /\ Len(call.arg) >= 2
    /\ Len(Expansion(call.arg)) = 1
    /\ Len(call.ret) = 2

====
